---- MODULE Spec2Model ----
(***************************************************************************)
(* Interview Assistant (app.py): a Streamlit page that transcribes         *)
(* recorded or uploaded audio and generates a short and a long answer.     *)
(*                                                                         *)
(* Text is modelled as a sequence of tokens.  A token is a run of          *)
(* characters that the code never splits: a newline, one of the two block  *)
(* headers, a template sentence, or a piece of user text.  String          *)
(* concatenation (+, +=, f-strings) is sequence concatenation, the empty   *)
(* string is <<>> and Python's truthiness test of a string is # <<>>.      *)
(***************************************************************************)
EXTENDS Integers, Sequences, FiniteSets, TLC

VARIABLES
    session_state,      \* st.session_state: a function from its keys to values
    uploaded_file,      \* value of the file_uploader widget
    settings,           \* model_select, position_input, job_posting_input, resume_input
    transcribe_button,  \* "Transcribe Uploaded File" pressed in this rerun
    generate_button,    \* "Generate Answers" pressed in this rerun
    pc,                 \* position of the running script inside main()
    shown,              \* st.success / st.error / st.warning boxes of this rerun
    display,            \* what the transcript and answer areas rendered
    crashed,            \* an exception left main() in this rerun
    temp_files,         \* temporary files of transcribe_audio still on disk
    requests,           \* chat-completion calls made in this rerun, in order
    start,              \* history: session_state when this rerun began
    failed,             \* history: the calls that failed in this rerun
    clip_calls,         \* history: transcribe_audio calls made for the current clip
    ever_transcribed,   \* history: some transcription returned non-empty text
    last_short,         \* history: the latest short-answer request
    repeated            \* history: it had the arguments of the one before

vars == <<session_state, uploaded_file, settings, transcribe_button,
          generate_button, pc, shown, display, crashed, temp_files, requests,
          start, failed, clip_calls, ever_transcribed, last_short, repeated>>

-----------------------------------------------------------------------------
(* Application settings and prompt templates *)

NL == "\n"
JOB_HEADER == "Job Posting:"
RESUME_HEADER == "Resume:"

MODELS == <<"gpt-4o-mini", "gpt-4o", "gpt-4-turbo", "gpt-3.5-turbo">>
DEFAULT_MODEL == MODELS[1]
DEFAULT_POSITION == <<"Python Developer">>

SYS_PREFIX == <<"You are interviewing for a ">>
SYS_SUFFIX ==
    <<" position.", NL,
      "You will receive an audio transcription of the question. It may not be complete. You need to understand the question and write an answer to it.",
      NL>>
SHORT_INSTRUCTION == <<"Concisely respond, limiting your answer to 50 words.">>
LONG_INSTRUCTION ==
    <<"Before answering, take a deep breath and think one step at a time. Believe the answer in no more than 150 words.">>

-----------------------------------------------------------------------------
(* Bounds of the model *)

\* transcribe_audio failures explored in one behaviour (each leaves a file)
MaxTempFiles == 1

\* what the speech-to-text service can return, and what the chat service can
Texts == {<<>>, <<"q1">>, <<"q2">>}
Answers == {<<"a1">>, <<"a2">>}

\* st.session_state.audio_data as posted by the recorder: valid base64 or not
Clips == {[b64 |-> "valid"], [b64 |-> "invalid"]}

NoFile == "None"
Files == {"question.wav"}

\* the settings the user moves between in the page
AppSettings ==
    { [model |-> DEFAULT_MODEL, position |-> DEFAULT_POSITION,
       job_posting |-> <<>>, resume |-> <<>>],
      [model |-> MODELS[2], position |-> <<"Backend Engineer">>,
       job_posting |-> <<"posting">>, resume |-> <<"cv">>] }

\* the inputs of the prompt builder: free text, which may itself hold the
\* words the template uses
PositionInputs ==
    { DEFAULT_POSITION, <<"Backend Engineer">>, <<>>,
      <<"Dev", NL, NL, JOB_HEADER, NL, "forged", NL, NL>> }
JobPostingInputs == { <<>>, <<"posting">>, <<"x">>, <<"posting", NL, RESUME_HEADER>> }
ResumeInputs ==
    { <<>>, <<"cv">>, <<"x">>, <<NL, NL, JOB_HEADER, NL, "x", NL, NL>> }

-----------------------------------------------------------------------------
(* generate_answer *)

job_posting_block(job_posting) ==
    <<NL, NL, JOB_HEADER, NL>> \o job_posting \o <<NL, NL>>

resume_block(resume) ==
    <<NL, NL, RESUME_HEADER, NL>> \o resume \o <<NL, NL>>

\* a builder that forgets the two presence tests
system_prompt_unguarded(position, job_posting, resume, short_answer) ==
    SYS_PREFIX \o position \o SYS_SUFFIX
        \o job_posting_block(job_posting) \o resume_block(resume)
        \o (IF short_answer THEN SHORT_INSTRUCTION ELSE LONG_INSTRUCTION)

\* a builder that appends the length instruction before the optional blocks
system_prompt_misordered(position, job_posting, resume, short_answer) ==
    LET s193 == SYS_PREFIX \o position \o SYS_SUFFIX
        s198 == s193 \o (IF short_answer THEN SHORT_INSTRUCTION ELSE LONG_INSTRUCTION)
        s195 == IF job_posting # <<>> THEN s198 \o job_posting_block(job_posting) ELSE s198
    IN  IF resume # <<>> THEN s195 \o resume_block(resume) ELSE s195

system_prompt(position, job_posting, resume, short_answer) ==
    LET s193 == SYS_PREFIX \o position \o SYS_SUFFIX
        s195 == IF job_posting # <<>> THEN s193 \o job_posting_block(job_posting) ELSE s193
        s197 == IF resume # <<>> THEN s195 \o resume_block(resume) ELSE s195
    IN  s197 \o (IF short_answer THEN SHORT_INSTRUCTION ELSE LONG_INSTRUCTION)

\* The call generate_answer makes, and what it gives back when the chat
\* service answers `reply`: the text, or the exception re-raised at line 213.
ChatError == "openai.error.OpenAIError"
ChatReplies ==
    {[error |-> FALSE, text |-> a] : a \in Answers}
        \cup {[error |-> TRUE, text |-> <<>>]}

\* the arguments of one call and the ChatCompletion request built from them
chat_request(transcript, short_answer, model, position, job_posting, resume) ==
    [ transcript   |-> transcript,
      short_answer |-> short_answer,
      position     |-> position,
      job_posting  |-> job_posting,
      resume       |-> resume,
      model        |-> model,
      messages     |-> << [role |-> "system",
                           content |-> system_prompt(position, job_posting, resume, short_answer)],
                          [role |-> "user", content |-> transcript] >> ]

generate_answer(transcript, short_answer, model, position, job_posting, resume, reply) ==
    [ request |-> chat_request(transcript, short_answer, model, position,
                               job_posting, resume),
      raised  |-> IF reply.error THEN ChatError ELSE "none",
      answer  |-> IF reply.error THEN <<>> ELSE reply.text ]

-----------------------------------------------------------------------------
(* transcribe_audio and base64 decoding *)

WhisperError == "openai.error.OpenAIError"
DecodeError == "binascii.Error"
WhisperReplies ==
    {[error |-> FALSE, text |-> t] : t \in Texts}
        \cup {[error |-> TRUE, text |-> <<>>]}

\* base64.b64decode(st.session_state.audio_data)
b64decode(audio_data) ==
    IF audio_data.b64 = "valid"
    THEN [raised |-> "none", bytes |-> "audio"]
    ELSE [raised |-> DecodeError, bytes |-> "none"]

\* The temporary file is created with delete=False; os.unlink is reached only
\* after openai.Audio.transcribe returned.
transcribe_audio(audio_bytes, whisper) ==
    IF whisper.error
    THEN [raised |-> WhisperError, transcript |-> <<>>, temp_left |-> 1]
    ELSE [raised |-> "none", transcript |-> whisper.text, temp_left |-> 0]

-----------------------------------------------------------------------------
(* main(): session state, widgets and the script run *)

SessionDefaults ==
    [k \in {"transcript", "short_answer", "long_answer"} |-> <<>>]

\* st.session_state.<key> = value
set_key(ss, key, value) ==
    [k \in DOMAIN ss \cup {key} |-> IF k = key THEN value ELSE ss[k]]

\* del st.session_state.<key>
del_key(ss, key) == [k \in DOMAIN ss \ {key} |-> ss[k]]

\* a handler that catches only the service's errors
except_openai_only(exc) == exc \in {WhisperError, ChatError}

\* `except Exception as e`: every exception the three calls can raise is a
\* subclass of Exception
except_Exception(exc) == exc \in {DecodeError, WhisperError, ChatError}

\* a success path that also resets the answers
store_transcript_reset(ss, transcript) ==
    [ss EXCEPT !["transcript"] = transcript,
               !["short_answer"] = <<>>, !["long_answer"] = <<>>]

\* st.session_state.transcript = transcript
store_transcript(ss, transcript) == [ss EXCEPT !["transcript"] = transcript]

\* a short-answer store that also drops the previous long answer
store_short_answer_both(ss, answer) ==
    [ss EXCEPT !["short_answer"] = answer, !["long_answer"] = <<>>]

\* st.session_state.short_answer = generate_answer(..., short_answer=True, ...)
store_short_answer(ss, answer) == [ss EXCEPT !["short_answer"] = answer]

\* st.session_state.long_answer = generate_answer(..., short_answer=False, ...)
store_long_answer(ss, answer) == [ss EXCEPT !["long_answer"] = answer]

\* a guard that lets an empty transcript through
transcript_missing_never(ss) == FALSE

\* `if not st.session_state.transcript`
transcript_missing(ss) == ss["transcript"] = <<>>

\* a handler that blanks the answers when generation fails
on_generate_error_blank(ss) ==
    [ss EXCEPT !["short_answer"] = <<>>, !["long_answer"] = <<>>]

\* the except clause of Generate Answers reports and assigns nothing
on_generate_error(ss) == ss

NotRendered == <<>>

Init ==
    /\ session_state = SessionDefaults
    /\ uploaded_file = NoFile
    /\ settings = [model |-> DEFAULT_MODEL, position |-> DEFAULT_POSITION,
                   job_posting |-> <<>>, resume |-> <<>>]
    /\ transcribe_button = FALSE
    /\ generate_button = FALSE
    /\ pc = "idle"
    /\ shown = {}
    /\ display = <<[transcript |-> <<>>, short_answer |-> <<>>, long_answer |-> <<>>]>>
    /\ crashed = FALSE
    /\ temp_files = 0
    /\ requests = <<>>
    /\ start = SessionDefaults
    /\ failed = {}
    /\ clip_calls = 0
    /\ ever_transcribed = FALSE
    /\ last_short = <<>>
    /\ repeated = FALSE

\* Streamlit runs main() from the top on every widget event; buttons are True
\* only in the run their press started.
StartRerun(ss, transcribe_pressed, generate_pressed) ==
    /\ pc = "idle"
    /\ pc' = "recorded"
    /\ session_state' = ss
    /\ transcribe_button' = transcribe_pressed
    /\ generate_button' = generate_pressed
    /\ shown' = {}
    /\ display' = NotRendered
    /\ crashed' = FALSE
    /\ requests' = <<>>
    /\ start' = ss
    /\ failed' = {}
    /\ UNCHANGED <<temp_files, ever_transcribed, last_short, repeated>>

\* The recorder's onstop handler posts the clip; the page reads it as
\* st.session_state.audio_data in the run that follows.
RecordingStopped ==
    \E clip \in Clips :
        /\ StartRerun(set_key(session_state, "audio_data", clip), FALSE, FALSE)
        /\ clip_calls' = 0
        /\ UNCHANGED <<uploaded_file, settings>>

ChooseFile ==
    \E f \in (Files \cup {NoFile}) \ {uploaded_file} :
        /\ StartRerun(session_state, FALSE, FALSE)
        /\ uploaded_file' = f
        /\ UNCHANGED <<settings, clip_calls>>

EditSettings ==
    \E s \in AppSettings \ {settings} :
        /\ StartRerun(session_state, FALSE, FALSE)
        /\ settings' = s
        /\ UNCHANGED <<uploaded_file, clip_calls>>

\* the button exists only while a file is selected
PressTranscribe ==
    /\ uploaded_file # NoFile
    /\ StartRerun(session_state, TRUE, FALSE)
    /\ UNCHANGED <<uploaded_file, settings, clip_calls>>

PressGenerate ==
    /\ StartRerun(session_state, FALSE, TRUE)
    /\ UNCHANGED <<uploaded_file, settings, clip_calls>>

\* One try block around a transcription: decode or read, transcribe_audio,
\* store, report; on an exception the except clause reports it.
TryTranscribe(dec, whisper, recorded, next_pc) ==
    LET called == dec.raised = "none"
        tr     == transcribe_audio(dec.bytes, whisper)
        exc    == IF called THEN tr.raised ELSE dec.raised
        ok     == exc = "none"
        stored == store_transcript(session_state, tr.transcript)
        source == IF recorded THEN "recording" ELSE "file"
    IN  /\ (called /\ tr.temp_left > 0) => temp_files < MaxTempFiles
        /\ temp_files' = IF called THEN temp_files + tr.temp_left ELSE temp_files
        /\ clip_calls' = IF recorded /\ called THEN clip_calls + 1 ELSE clip_calls
        /\ session_state' =
              IF ~ok THEN session_state
              ELSE IF recorded THEN del_key(stored, "audio_data")
              ELSE stored
        /\ failed' = (IF ok THEN failed ELSE failed \cup {source})
        /\ ever_transcribed' = (ever_transcribed \/ (ok /\ tr.transcript # <<>>))
        /\ IF ok
           THEN /\ shown' = shown \cup {<<"success", source>>}
                /\ pc' = next_pc
                /\ crashed' = crashed
           ELSE IF except_Exception(exc)
           THEN /\ shown' = shown \cup {<<"error", source>>}
                /\ pc' = next_pc
                /\ crashed' = crashed
           ELSE /\ shown' = shown
                /\ pc' = "idle"
                /\ crashed' = TRUE

HandleRecorded ==
    /\ pc = "recorded"
    /\ IF "audio_data" \in DOMAIN session_state
       THEN \E whisper \in WhisperReplies :
                TryTranscribe(b64decode(session_state["audio_data"]), whisper,
                              TRUE, "upload")
       ELSE /\ pc' = "upload"
            /\ UNCHANGED <<session_state, shown, crashed, temp_files, failed,
                           clip_calls, ever_transcribed>>
    /\ UNCHANGED <<uploaded_file, settings, transcribe_button, generate_button,
                   display, requests, start, last_short, repeated>>

HandleUpload ==
    /\ pc = "upload"
    /\ IF uploaded_file # NoFile /\ transcribe_button
       THEN \E whisper \in WhisperReplies :
                TryTranscribe([raised |-> "none", bytes |-> uploaded_file],
                              whisper, FALSE, "generate")
       ELSE /\ pc' = "generate"
            /\ UNCHANGED <<session_state, shown, crashed, temp_files, failed,
                           clip_calls, ever_transcribed>>
    /\ UNCHANGED <<uploaded_file, settings, transcribe_button, generate_button,
                   display, requests, start, last_short, repeated>>

CallFor(short_answer, reply) ==
    generate_answer(session_state["transcript"], short_answer, settings.model,
                    settings.position, settings.job_posting, settings.resume,
                    reply)

\* Generate Answers, up to and including the short-answer call
HandleGenerate ==
    /\ pc = "generate"
    /\ IF ~generate_button
       THEN /\ pc' = "render"
            /\ UNCHANGED <<session_state, shown, crashed, requests, failed,
                           last_short, repeated>>
       ELSE IF transcript_missing(session_state)
       THEN /\ shown' = shown \cup {<<"warning", "answers">>}
            /\ pc' = "render"
            /\ UNCHANGED <<session_state, crashed, requests, failed,
                           last_short, repeated>>
       ELSE \E reply \in ChatReplies :
              LET call == CallFor(TRUE, reply)
              IN  /\ requests' = Append(requests, call)
                  /\ last_short' = <<call.request>>
                  /\ repeated' = (last_short = <<call.request>>)
                  /\ failed' = (IF call.raised = "none" THEN failed
                                 ELSE failed \cup {"answers"})
                  /\ IF call.raised = "none"
                     THEN /\ session_state' = store_short_answer(session_state, call.answer)
                          /\ pc' = "generate_long"
                          /\ UNCHANGED <<shown, crashed>>
                     ELSE IF except_Exception(call.raised)
                     THEN /\ session_state' = on_generate_error(session_state)
                          /\ shown' = shown \cup {<<"error", "answers">>}
                          /\ pc' = "render"
                          /\ crashed' = crashed
                     ELSE /\ pc' = "idle"
                          /\ crashed' = TRUE
                          /\ UNCHANGED <<session_state, shown>>
    /\ UNCHANGED <<uploaded_file, settings, transcribe_button, generate_button,
                   display, temp_files, start, clip_calls, ever_transcribed>>

\* the long-answer call and the end of the try block
GenerateLong ==
    /\ pc = "generate_long"
    /\ \E reply \in ChatReplies :
          LET call == CallFor(FALSE, reply)
          IN  /\ requests' = Append(requests, call)
              /\ failed' = (IF call.raised = "none" THEN failed
                             ELSE failed \cup {"answers"})
              /\ IF call.raised = "none"
                 THEN /\ session_state' = store_long_answer(session_state, call.answer)
                      /\ shown' = shown \cup {<<"success", "answers">>}
                      /\ pc' = "render"
                      /\ crashed' = crashed
                 ELSE IF except_Exception(call.raised)
                 THEN /\ session_state' = on_generate_error(session_state)
                      /\ shown' = shown \cup {<<"error", "answers">>}
                      /\ pc' = "render"
                      /\ crashed' = crashed
                 ELSE /\ pc' = "idle"
                      /\ crashed' = TRUE
                      /\ UNCHANGED <<session_state, shown>>
    /\ UNCHANGED <<uploaded_file, settings, transcribe_button, generate_button,
                   display, temp_files, start, clip_calls, ever_transcribed,
                   last_short, repeated>>

\* the transcription and answer areas of the right-hand column
Render ==
    /\ pc = "render"
    /\ display' = <<[transcript   |-> session_state["transcript"],
                     short_answer |-> session_state["short_answer"],
                     long_answer  |-> session_state["long_answer"]]>>
    /\ pc' = "idle"
    /\ UNCHANGED <<session_state, uploaded_file, settings, transcribe_button,
                   generate_button, shown, crashed, temp_files, requests,
                   start, failed, clip_calls, ever_transcribed, last_short,
                   repeated>>

Next ==
    \/ RecordingStopped
    \/ ChooseFile
    \/ EditSettings
    \/ PressTranscribe
    \/ PressGenerate
    \/ HandleRecorded
    \/ HandleUpload
    \/ HandleGenerate
    \/ GenerateLong
    \/ Render

Spec == Init /\ [][Next]_vars

-----------------------------------------------------------------------------
(* generate_answer on its own: every combination of the builder's inputs *)

InitPrompt ==
    /\ settings \in [model : {DEFAULT_MODEL}, position : PositionInputs,
                     job_posting : JobPostingInputs, resume : ResumeInputs]
    /\ session_state \in {set_key(SessionDefaults, "transcript", t) :
                              t \in Texts \ {<<>>}}
    /\ uploaded_file = NoFile
    /\ transcribe_button = FALSE
    /\ generate_button = FALSE
    /\ pc = "idle"
    /\ shown = {}
    /\ display = NotRendered
    /\ crashed = FALSE
    /\ temp_files = 0
    /\ requests = <<>>
    /\ start = session_state
    /\ failed = {}
    /\ clip_calls = 0
    /\ ever_transcribed = TRUE
    /\ last_short = <<>>
    /\ repeated = FALSE

CallGenerateAnswer ==
    /\ \E short_answer \in BOOLEAN, reply \in ChatReplies :
          requests' = <<CallFor(short_answer, reply)>>
    /\ UNCHANGED <<session_state, uploaded_file, settings, transcribe_button,
                   generate_button, pc, shown, display, crashed, temp_files,
                   start, failed, clip_calls, ever_transcribed, last_short,
                   repeated>>

NextPrompt == CallGenerateAnswer

SpecPrompt == InitPrompt /\ [][NextPrompt]_vars

-----------------------------------------------------------------------------
(* Properties *)

\* the number of places where `sub` occurs in `s`
Occ(sub, s) ==
    Cardinality({i \in 1..(Len(s) - Len(sub) + 1) :
                    SubSeq(s, i, i + Len(sub) - 1) = sub})

PromptOf(call) == call.request.messages[1].content

AtRerunEnd == pc \in {"render", "idle"}

\* C1 as stated: with an empty job_posting (resume) the prompt holds no
\* "Job Posting:" ("Resume:") header at all, and the block of a non-empty
\* job_posting (resume) occurs in the prompt exactly once.
C1_BlocksByText ==
    \A i \in DOMAIN requests :
        LET r == requests[i].request
            p == PromptOf(requests[i])
        IN  /\ r.job_posting = <<>> => Occ(<<JOB_HEADER>>, p) = 0
            /\ r.resume = <<>> => Occ(<<RESUME_HEADER>>, p) = 0
            /\ r.job_posting # <<>> => Occ(job_posting_block(r.job_posting), p) = 1
            /\ r.resume # <<>> => Occ(resume_block(r.resume), p) = 1

\* C1 amended: the builder adds one "Job Posting:" header when job_posting is
\* non-empty and none when it is empty, and likewise one "Resume:" header for
\* resume: the headers in the prompt are those already in the three inputs
\* plus the ones added.  The block of a non-empty field is in the prompt with
\* the field's text verbatim.
C1_BlocksAppendedOnce ==
    \A i \in DOMAIN requests :
        LET r == requests[i].request
            p == PromptOf(requests[i])
            given(h) == Occ(<<h>>, r.position) + Occ(<<h>>, r.job_posting)
                            + Occ(<<h>>, r.resume)
        IN  /\ Occ(<<JOB_HEADER>>, p) =
                  given(JOB_HEADER) + (IF r.job_posting = <<>> THEN 0 ELSE 1)
            /\ Occ(<<RESUME_HEADER>>, p) =
                  given(RESUME_HEADER) + (IF r.resume = <<>> THEN 0 ELSE 1)
            /\ r.job_posting # <<>> => Occ(job_posting_block(r.job_posting), p) >= 1
            /\ r.resume # <<>> => Occ(resume_block(r.resume), p) >= 1

\* a prompt built from an empty job_posting and a non-empty resume, no input
\* holding a header: one resume block and no job-posting header
C1_Witness ==
    \E i \in DOMAIN requests :
        LET r == requests[i].request
        IN  /\ r.job_posting = <<>>
            /\ r.resume = <<"cv">>
            /\ Occ(<<JOB_HEADER>>, PromptOf(requests[i])) = 0
            /\ Occ(resume_block(<<"cv">>), PromptOf(requests[i])) = 1

\* C2: the prompt is SYS_PREFIX, position, SYS_SUFFIX, the job-posting block
\* if job_posting is non-empty, the resume block if resume is non-empty, and
\* last the one length instruction the flag selects; for "Backend Engineer"
\* with no job posting and no resume the short prompt ends in the 50-word
\* directive and holds neither header.
C2_PromptLayout ==
    \A i \in DOMAIN requests :
        LET r == requests[i].request
            p == PromptOf(requests[i])
            instruction == IF r.short_answer THEN SHORT_INSTRUCTION
                           ELSE LONG_INSTRUCTION
            head == SYS_PREFIX \o r.position \o SYS_SUFFIX
            middle == SubSeq(p, Len(head) + 1, Len(p) - Len(instruction))
            blocks == (IF r.job_posting = <<>> THEN <<>>
                       ELSE <<NL, NL, "Job Posting:", NL>> \o r.job_posting \o <<NL, NL>>)
                   \o (IF r.resume = <<>> THEN <<>>
                       ELSE <<NL, NL, "Resume:", NL>> \o r.resume \o <<NL, NL>>)
        IN  /\ Len(p) >= Len(head) + Len(instruction)
            /\ SubSeq(p, 1, Len(head)) = head
            /\ middle = blocks
            /\ SubSeq(p, Len(p) - Len(instruction) + 1, Len(p)) = instruction
            /\ SHORT_INSTRUCTION # LONG_INSTRUCTION
            /\ (r.position = <<"Backend Engineer">> /\ r.job_posting = <<>>
                    /\ r.resume = <<>> /\ r.short_answer)
                => /\ p[Len(p)] = "Concisely respond, limiting your answer to 50 words."
                   /\ Occ(<<JOB_HEADER>>, p) = 0
                   /\ Occ(<<RESUME_HEADER>>, p) = 0

C2_Witness ==
    \E i \in DOMAIN requests :
        LET r == requests[i].request
        IN  /\ r.position = <<"Backend Engineer">>
            /\ r.job_posting = <<>>
            /\ r.resume = <<>>
            /\ r.short_answer
            /\ Len(PromptOf(requests[i])) = Len(SYS_PREFIX) + 1 + Len(SYS_SUFFIX) + 1

TranscriptionFailed == failed \cap {"recording", "file"} # {}

\* C3: when a transcription failed in a rerun, the transcript at the end of
\* the rerun is the transcript the rerun began with.
C3_FailureKeepsTranscript ==
    (AtRerunEnd /\ TranscriptionFailed)
        => session_state["transcript"] = start["transcript"]

\* C4: no temporary file written by transcribe_audio is left on disk once the
\* call has finished.
C4_TempFileDeleted == temp_files = 0

\* C5: no exception of base64 decoding, transcribe_audio or generate_answer
\* leaves main(); each failure shows its error box, and the rerun goes on to
\* render the transcript and answer areas from the session state.
C5_FailuresCaught ==
    /\ ~crashed
    /\ \A f \in failed : <<"error", f>> \in shown
    /\ pc = "idle" =>
          display = <<[transcript   |-> session_state["transcript"],
                       short_answer |-> session_state["short_answer"],
                       long_answer  |-> session_state["long_answer"]]>>

\* a finished rerun in which a transcription and the generation both failed
C5_Witness ==
    /\ pc = "idle"
    /\ "recording" \in failed
    /\ "answers" \in failed
    /\ Len(display) = 1

\* C6: a clip placed in st.session_state.audio_data is passed to
\* transcribe_audio at most once.
C6_NoRetry == clip_calls <= 1

SameArguments(a, b) ==
    /\ a.transcript = b.transcript
    /\ a.short_answer = b.short_answer
    /\ a.model = b.model
    /\ a.position = b.position
    /\ a.job_posting = b.job_posting
    /\ a.resume = b.resume

ShortCallStep == pc = "generate" /\ Len(requests') = Len(requests) + 1

\* C7: a short-answer call changes nothing in the session state but
\* short_answer, so long_answer is as before it; and a short-answer call with
\* the transcript and parameters of the previous one sends the same messages.
C7_ShortCallIndependent ==
    [][ShortCallStep =>
          /\ \A k \in DOMAIN session_state \ {"short_answer"} :
                /\ k \in DOMAIN session_state'
                /\ session_state'[k] = session_state[k]
          /\ DOMAIN session_state' = DOMAIN session_state
          /\ (last_short # <<>> /\ SameArguments(last_short[1], last_short'[1]))
                => last_short'[1].messages = last_short[1].messages]_vars

\* a second short-answer call with the same arguments has just stored its
\* answer next to a long answer of an earlier generation
C7_Witness ==
    /\ pc = "generate_long"
    /\ repeated
    /\ session_state["long_answer"] # <<>>
    /\ session_state["short_answer"] # start["short_answer"]

GenerationRan == AtRerunEnd /\ Len(requests) >= 1

AnswersRetained ==
    /\ session_state["short_answer"] = start["short_answer"]
    /\ session_state["long_answer"] = start["long_answer"]

SameGeneration ==
    /\ Len(requests) = 2
    /\ requests[1].request.short_answer
    /\ ~requests[2].request.short_answer
    /\ requests[1].request.transcript = requests[2].request.transcript
    /\ requests[1].request.model = requests[2].request.model
    /\ requests[1].request.position = requests[2].request.position
    /\ requests[1].request.job_posting = requests[2].request.job_posting
    /\ requests[1].request.resume = requests[2].request.resume

\* C8 as stated: after Generate Answers ran on a non-empty transcript, either
\* both answers are the ones just generated from the same transcript and
\* parameters, or a chat call failed and both answers are as before.
C8_AllOrNothing ==
    GenerationRan =>
        \/ /\ "answers" \notin failed
           /\ SameGeneration
           /\ session_state["short_answer"] = requests[1].answer
           /\ session_state["long_answer"] = requests[2].answer
        \/ /\ "answers" \in failed
           /\ AnswersRetained

\* C8 amended: after Generate Answers ran on a non-empty transcript, either
\* both answers are the ones just generated from the same transcript and
\* parameters, or the short call failed and both answers are as before, or
\* the short call succeeded and the long call failed, and then short_answer
\* is the new short answer while long_answer is as before.
C8_ShortThenLong ==
    GenerationRan =>
        \/ /\ "answers" \notin failed
           /\ SameGeneration
           /\ session_state["short_answer"] = requests[1].answer
           /\ session_state["long_answer"] = requests[2].answer
        \/ /\ "answers" \in failed
           /\ Len(requests) = 1
           /\ requests[1].raised # "none"
           /\ AnswersRetained
        \/ /\ "answers" \in failed
           /\ SameGeneration
           /\ requests[1].raised = "none"
           /\ requests[2].raised # "none"
           /\ session_state["short_answer"] = requests[1].answer
           /\ session_state["long_answer"] = start["long_answer"]

\* the long call failed after the short call had replaced the short answer
C8_Witness ==
    /\ pc = "idle"
    /\ Len(requests) = 2
    /\ requests[2].raised # "none"
    /\ session_state["short_answer"] # start["short_answer"]
    /\ session_state["long_answer"] = start["long_answer"]
    /\ start["long_answer"] # <<>>

GenerateOnEmptyStep ==
    /\ pc = "generate"
    /\ generate_button
    /\ session_state["transcript"] = <<>>

\* C9: Generate Answers on an empty transcript sends no chat request, shows
\* the warning and leaves the session state as it is; and whenever an answer
\* is non-empty, a transcription has returned non-empty text before.
C9_NoAnswerWithoutTranscript ==
    /\ []((session_state["short_answer"] # <<>> \/ session_state["long_answer"] # <<>>)
            => ever_transcribed)
    /\ [][GenerateOnEmptyStep =>
            /\ requests' = requests
            /\ session_state' = session_state
            /\ <<"warning", "answers">> \in shown'
            /\ pc' = "render"]_vars

\* Generate Answers was pressed on an empty transcript
C9_Witness ==
    /\ pc = "idle"
    /\ generate_button
    /\ session_state["transcript"] = <<>>
    /\ <<"warning", "answers">> \in shown
    /\ requests = <<>>

\* C10: in a rerun in which Generate Answers is not pressed, whatever the
\* transcriptions of the rerun did, both answers are the ones the rerun
\* began with.
C10_TranscriptionKeepsAnswers ==
    ~generate_button =>
        /\ session_state["short_answer"] = start["short_answer"]
        /\ session_state["long_answer"] = start["long_answer"]

\* a rerun stored a new transcript and the answers on display are still the
\* ones generated from the transcript before it
C10_Witness ==
    /\ pc = "idle"
    /\ ~generate_button
    /\ <<"success", "recording">> \in shown
    /\ session_state["transcript"] # start["transcript"]
    /\ session_state["short_answer"] # <<>>
    /\ session_state["long_answer"] # <<>>
    /\ last_short # <<>>
    /\ last_short[1].transcript # session_state["transcript"]
    /\ display[1].short_answer = session_state["short_answer"]

====
